---- MODULE Spec2Model ----
(***************************************************************************)
(* Descriptor-set cache and pool allocator of the zink gallium driver      *)
(* (src/gallium/drivers/zink/zink_descriptors.c).                          *)
(*                                                                         *)
(* One program (struct zink_program) with one descriptor pool per          *)
(* descriptor type, the descriptor sets the pools have allocated, the      *)
(* per-allocation backing arrays of resource slots, the back-reference     *)
(* lists of the resources, and the batches that hold references on sets.   *)
(***************************************************************************)
EXTENDS Integers, Sequences, FiniteSets, TLC

\* ------------------------------------------------------------------ bounds
\* DESC_BUCKET_FACTOR is 10 in the source (line 126) and the capacity
\* ZINK_DEFAULT_MAX_DESCS is 5000 = 500 buckets; the model keeps the capacity
\* a whole number of buckets and scales both down.
DESC_BUCKET_FACTOR == 2
MaxBuckets == 1
\* the scan threshold, 100 in the source (line 263)
ScanLimit == 1
\* ZINK_SHADER_COUNT is 5 in the driver; the fragment stage is stage 1
ZINK_SHADER_COUNT == 3
PIPE_SHADER_FRAGMENT == 1
\* ZINK_DESCRIPTOR_TYPES is 4 in the driver
ZINK_DESCRIPTOR_TYPES == 2
\* revision numbers the context hands out, resources, batches, hash width
MaxRev == 3
NumResources == 1
NumBatches == 2
HashSpace == 16
\* alloc_desc_sets can take the same set again and again; the model stops
\* following a run when the list would grow past this length
MaxShells == 2
\* the number of operations of a run the model follows
MaxOps == 11
\* the layouts of SpecSchema have 1 .. MaxDescriptors bindings, and its runs
\* are followed for MaxOpsSchema operations
MaxDescriptors == 2
MaxOpsSchema == 8
\* the runs of SpecProgram are followed for MaxOpsProgram operations after
\* zink_descriptor_program_init
MaxOpsProgram == 5
\* the runs of SpecThreads are followed for MaxOpsThreads steps
MaxOpsThreads == 8
\* the keys of SpecHash carry revisions 0 .. MaxKeyRev
MaxKeyRev == 1

ZINK_DEFAULT_MAX_DESCS == MaxBuckets * DESC_BUCKET_FACTOR

NULL == 0
Stages == 0 .. (ZINK_SHADER_COUNT - 1)
Types == 0 .. (ZINK_DESCRIPTOR_TYPES - 1)
Resources == 1 .. NumResources
BatchIds == 1 .. NumBatches

VARIABLES
    is_compute,    \* the program is a compute program
    num_resources, \* zink_program_num_bindings_typed(pg, type, is_compute), per type
    pool,          \* pg->pool[type]: the pool's record (created = FALSE: no pool)
    zds,           \* every struct zink_descriptor_set allocated so far, by index
    resources,     \* the backing slot array of every allocate_desc_set call
    refs,          \* per resource: its desc_set_refs (slot address, owner of the invalid flag)
    last_set,      \* pg->last_set[type]
    batches,       \* per batch: the descriptor sets it holds a reference on
    curr,          \* the batch that is recording
    pc,            \* "idle", "flushed", "freed", "retry" (inside the flush-and-retry recursion), "abort", "segv",
                   \* "setup" (before zink_descriptor_program_init), "failed" (it failed),
                   \* "keys", "hashed", "compared" (the callbacks of a hash table at work)
    req,           \* the request of the zink_descriptor_set_get call being retried
    ret,           \* the last operation and what it returned
    ops,           \* the number of operations so far
    limit,         \* the number of operations the run is followed for
    live,          \* what the pools have created and not released: <<type, part>>
    rec            \* the set zink_descriptor_set_recycle is at work on, past line 315

vars == <<is_compute, num_resources, pool, zds, resources, refs, last_set,
          batches, curr, pc, req, ret, ops, limit, live, rec>>

\* ------------------------------------------------------------ fingerprints

\* desc_state_equal, lines 37-51
desc_state_equal(a, b) ==
    \A i \in Stages :
        /\ a.exists[i] = b.exists[i]
        /\ (a.exists[i] /\ b.exists[i]) => (a.state[i] = b.state[i])

\* XXH32 of one 32-bit word under a seed: a mixing function of bounded width
XXH32(input, seed) == (seed * 5 + input * 3 + 1) % HashSpace

RECURSIVE desc_state_hash_loop(_, _, _)
desc_state_hash_loop(d_key, i, hash) ==
    IF i >= ZINK_SHADER_COUNT THEN hash
    ELSE desc_state_hash_loop(d_key, i + 1,
            IF d_key.exists[i] THEN XXH32(d_key.state[i], hash) ELSE hash)

\* desc_state_hash, lines 53-66
desc_state_hash(d_key) ==
    IF ~d_key.exists[PIPE_SHADER_FRAGMENT] THEN d_key.state[0]
    ELSE desc_state_hash_loop(d_key, 0, 0)

RECURSIVE ctx_fold(_, _, _, _)
ctx_fold(valid, state, i, acc) ==
    IF i >= ZINK_SHADER_COUNT THEN acc.hash
    ELSE ctx_fold(valid, state, i + 1,
            IF ~valid[i] THEN acc
            ELSE IF acc.first THEN [first |-> FALSE, hash |-> state[i]]
            ELSE [first |-> FALSE, hash |-> XXH32(state[i], acc.hash)])

\* The context's state: per stage a validity flag and a revision
\* (ctx->gfx_descriptor_states[i]), and the combined revision
\* ctx->descriptor_states[is_compute].state[type], which the context keeps as
\* the fold of the revisions of the valid stages (the bare revision for compute).
CtxStates(isc) ==
    IF isc
    THEN {[valid |-> [i \in Stages |-> FALSE], state |-> [i \in Stages |-> 0], hash |-> r] :
            r \in 1 .. MaxRev}
    ELSE {[valid |-> [i \in Stages |-> TRUE],
           state |-> [i \in Stages |-> IF i = 0 THEN r ELSE 1],
           hash |-> ctx_fold([i \in Stages |-> TRUE],
                             [i \in Stages |-> IF i = 0 THEN r ELSE 1], 0,
                             [first |-> TRUE, hash |-> 0])] :
            r \in 1 .. MaxRev}

\* populate_zds_key, lines 182-196. `old` is the key being overwritten: the
\* compute branch leaves state[1..] of it as it was.
populate_zds_key(c, isc, old) ==
    IF isc
    THEN [exists |-> [i \in Stages |-> i = 0],
          state |-> [i \in Stages |-> IF i = 0 THEN c.hash ELSE old.state[i]]]
    ELSE [exists |-> c.valid, state |-> c.state]

\* the key of a set that was never stamped (ralloc_array leaves it unset; it
\* is not read before zink_descriptor_set_get stamps it)
NoKey == [exists |-> [i \in Stages |-> FALSE], state |-> [i \in Stages |-> 0]]

\* ------------------------------------------------------------ hash tables

\* A table is a set of entries [hash, zds]: the stored hash, and the set the
\* entry's key pointer (&zds->key) and data pointer lead to. The key is read
\* through the set, as the table reads it through the pointer.

\* _mesa_hash_table_search_pre_hashed: the entries a probe for (hash, key) can stop at
Search(ht, z, hash, key) ==
    {he \in ht : he.hash = hash /\ desc_state_equal(z[he.zds].key, key)}

\* _mesa_hash_table_insert_pre_hashed(ht, hash, &z[o].key, o): the tables that can
\* result; an entry matching (hash, key) is overwritten in place
Insert(ht, z, hash, o) ==
    LET m == Search(ht, z, hash, z[o].key)
    IN  IF m = {} THEN {ht \cup {[hash |-> hash, zds |-> o]}}
        ELSE {(ht \ {he}) \cup {[hash |-> hash, zds |-> o]} : he \in m}

\* the orders in which hash_table_foreach / set_foreach can visit S
Orders(S) ==
    {f \in [1 .. Cardinality(S) -> S] : \A i, j \in DOMAIN f : i # j => f[i] # f[j]}


\* ------------------------------------------------------------------ pools

\* what descriptor_pool_create makes, in the order it makes it: the pool struct
\* (line 71), the two hash tables (lines 75, 79), the VkDescriptorSetLayout
\* (line 91) and the VkDescriptorPool (line 102)
PoolSteps == <<"pool", "desc_sets", "free_desc_sets", "dsl", "descpool">>
PoolParts == {PoolSteps[k] : k \in DOMAIN PoolSteps}

\* descriptor_pool_create on success, lines 68-107
descriptor_pool_create(num_bindings) ==
    [created |-> TRUE,
     num_descriptors |-> num_bindings,
     desc_sets |-> {},
     free_desc_sets |-> {},
     alloc_desc_sets |-> <<>>,
     num_sets_allocated |-> 0]

\* pg->pool[type] of a type that has no pool
NoPool ==
    [created |-> FALSE, num_descriptors |-> 0, desc_sets |-> {}, free_desc_sets |-> {},
     alloc_desc_sets |-> <<>>, num_sets_allocated |-> 0]

\* a zink_descriptor_pool_free that leaves the VkDescriptorSetLayout alone
zink_descriptor_pool_free_KeepsLayout(built) ==
    IF "pool" \notin built THEN built
    ELSE built \ {"descpool", "desc_sets", "free_desc_sets", "pool"}

\* zink_descriptor_pool_free on a pool of which the parts `built` exist, lines
\* 514-537: the parts that are left afterwards
zink_descriptor_pool_free(built) ==
    IF "pool" \notin built THEN built
    ELSE LET no_dsl == IF "dsl" \in built THEN built \ {"dsl"} ELSE built
             no_descpool == IF "descpool" \in no_dsl THEN no_dsl \ {"descpool"} ELSE no_dsl
             no_ht == IF "desc_sets" \in no_descpool
                      THEN no_descpool \ {"desc_sets"} ELSE no_descpool
             no_free_ht == IF "free_desc_sets" \in no_ht
                           THEN no_ht \ {"free_desc_sets"} ELSE no_ht
         IN  no_free_ht \ {"pool"}

\* descriptor_pool_create, lines 68-111, with step number `fail` of PoolSteps
\* failing (0: none does): the pool it returns (NoPool for NULL), and the parts
\* that exist when it returns
pool_create(num_bindings, fail) ==
    LET built == {PoolSteps[k] : k \in 1 .. (IF fail = 0 THEN Len(PoolSteps) ELSE fail - 1)}
    IN  IF fail = 0 THEN [pool |-> descriptor_pool_create(num_bindings), left |-> built]
        ELSE IF fail = 1 THEN [pool |-> NoPool, left |-> {}]
        ELSE [pool |-> NoPool, left |-> zink_descriptor_pool_free(built)]

RECURSIVE program_init_pools(_, _, _, _, _, _, _)
\* the loop of lines 429-492 from type i down: a type without bindings gets a
\* pool of one null binding when a type above it has bindings (lines 430-445)
program_init_pools(nb, fail, i, found_descriptors, P, L, calls) ==
    IF i < 0 THEN [ok |-> TRUE, pool |-> P, live |-> L, calls |-> calls, step |-> ""]
    ELSE IF nb[i] = 0 /\ ~found_descriptors
    THEN program_init_pools(nb, fail, i - 1, found_descriptors, P, L, calls)
    ELSE LET c == pool_create(IF nb[i] = 0 THEN 1 ELSE nb[i], fail[i])
             L2 == L \cup {<<i, part>> : part \in c.left}
         IN  IF ~c.pool.created
             THEN [ok |-> FALSE, pool |-> P, live |-> L2, calls |-> Append(calls, i),
                   step |-> PoolSteps[fail[i]]]
             ELSE program_init_pools(nb, fail, i - 1, TRUE, [P EXCEPT ![i] = c.pool],
                                     L2, Append(calls, i))

\* a zink_descriptor_program_init whose loop starts with found_descriptors set:
\* every type without bindings gets a pool of one null binding
zink_descriptor_program_init_AllPlaceholders(nb, fail) ==
    IF \A t \in Types : nb[t] = 0
    THEN [ok |-> TRUE, pool |-> [t \in Types |-> NoPool], live |-> {}, calls |-> <<>>,
          step |-> ""]
    ELSE program_init_pools(nb, fail, ZINK_DESCRIPTOR_TYPES - 1, TRUE,
                            [t \in Types |-> NoPool], {}, <<>>)

\* zink_descriptor_program_init, lines 381-494, for a program whose shaders have
\* nb[t] bindings of type t
zink_descriptor_program_init(nb, fail) ==
    IF \A t \in Types : nb[t] = 0
    THEN [ok |-> TRUE, pool |-> [t \in Types |-> NoPool], live |-> {}, calls |-> <<>>,
          step |-> ""]
    ELSE program_init_pools(nb, fail, ZINK_DESCRIPTOR_TYPES - 1, FALSE,
                            [t \in Types |-> NoPool], {}, <<>>)

\* get_invalidated_desc_set, lines 113-119
get_invalidated_desc_set(z) ==
    IF ~z.invalid THEN FALSE ELSE z.refcount = 1

RECURSIVE bucket_loop(_, _, _)
bucket_loop(desc_factor, descs_used, bucket_size) ==
    IF desc_factor < descs_used
    THEN bucket_loop(desc_factor * DESC_BUCKET_FACTOR, descs_used, desc_factor)
    ELSE bucket_size

\* the bucket size of allocate_desc_set, lines 126-131
BucketSize(nd, descs_used) ==
    IF nd # 0 THEN bucket_loop(DESC_BUCKET_FACTOR, descs_used, DESC_BUCKET_FACTOR) ELSE 1

\* allocate_desc_set without the test of line 175: set 0 goes to
\* alloc_desc_sets with the others
allocate_desc_set_AppendsAll(P, Z, R, t, nr, descs_used) ==
    LET nd == P[t].num_descriptors
        bs == BucketSize(nd, descs_used)
        first == Len(Z) + 1
        desc_set(i) == Len(Z) + i
        new == [i \in 1 .. bs |->
                  [pool |-> t, hash |-> 0, key |-> NoKey, invalid |-> TRUE,
                   recycled |-> FALSE, refcount |-> 1,
                   alloc |-> Len(R) + 1, base |-> (i - 1) * nd,
                   desc_set |-> desc_set(i)]]
    IN  [zds |-> Z \o new,
         resources |-> Append(R, [k \in 1 .. (nr * bs) |-> NULL]),
         pool |-> [P EXCEPT ![t].alloc_desc_sets = @ \o [i \in 1 .. bs |-> first + i - 1],
                            ![t].num_sets_allocated = @ + bs],
         alloc |-> first]

\* allocate_desc_set after vkAllocateDescriptorSets succeeded, lines 148-179:
\* bucket_size sets in one block and one zeroed slot array for all of them; set
\* i takes the slots from i * num_descriptors on and the i-th handle (line 174);
\* sets 1.. go to alloc_desc_sets.
allocate_desc_set(P, Z, R, t, nr, descs_used) ==
    LET nd == P[t].num_descriptors
        bs == BucketSize(nd, descs_used)
        first == Len(Z) + 1
        \* the VkDescriptorSet handles vkAllocateDescriptorSets wrote, line 143
        desc_set(i) == Len(Z) + i
        new == [i \in 1 .. bs |->
                  [pool |-> t, hash |-> 0, key |-> NoKey, invalid |-> TRUE,
                   recycled |-> FALSE, refcount |-> 1,
                   alloc |-> Len(R) + 1, base |-> (i - 1) * nd,
                   desc_set |-> desc_set(i)]]
    IN  [zds |-> Z \o new,
         resources |-> Append(R, [k \in 1 .. (nr * bs) |-> NULL]),
         pool |-> [P EXCEPT ![t].alloc_desc_sets = @ \o [i \in 1 .. (bs - 1) |-> first + i],
                            ![t].num_sets_allocated = @ + bs],
         alloc |-> first]

\* an invalidation that also forgets the hash of the set
zink_descriptor_set_invalidate_ClearsHash(Z, o) ==
    [Z EXCEPT ![o].invalid = TRUE, ![o].hash = 0]

\* an invalidation that also gives up the VkDescriptorSet of the set
zink_descriptor_set_invalidate_DropsHandle(Z, o) ==
    [Z EXCEPT ![o].invalid = TRUE, ![o].desc_set = NULL]

\* zink_descriptor_set_invalidate, lines 496-500
zink_descriptor_set_invalidate(Z, o) == [Z EXCEPT ![o].invalid = TRUE]

\* zink_descriptor_set_recycle without the reference-count test of lines 313-315
zink_descriptor_set_recycle_NoRefcountTest(P, Z, o) ==
    LET t == Z[o].pool
        same == {[pool |-> P, zds |-> Z]}
        m == Search(P[t].desc_sets, Z, Z[o].hash, Z[o].key)
    IN  IF P[t].num_descriptors = 0 THEN same
        ELSE IF m = {} THEN same
        ELSE IF Z[o].invalid
        THEN {[pool |-> [P EXCEPT ![t].desc_sets = @ \ {he},
                                  ![t].alloc_desc_sets = Append(@, o)],
               zds |-> zink_descriptor_set_invalidate(Z, o)] : he \in m}
        ELSE LET Z1 == [Z EXCEPT ![o].recycled = TRUE]
             IN  UNION {{[pool |-> [P EXCEPT ![t].desc_sets = @ \ {he},
                                             ![t].free_desc_sets = f],
                          zds |-> Z1] :
                            f \in Insert(P[t].free_desc_sets, Z1, Z1[o].hash, o)} : he \in m}

\* zink_descriptor_set_recycle without the insertion of line 331: a valid set
\* leaves the active map and enters no other collection
zink_descriptor_set_recycle_NoInsert(P, Z, o) ==
    LET t == Z[o].pool
        same == {[pool |-> P, zds |-> Z]}
        m == Search(P[t].desc_sets, Z, Z[o].hash, Z[o].key)
    IN  IF Z[o].refcount # 1 THEN same
        ELSE IF P[t].num_descriptors = 0 THEN same
        ELSE IF m = {} THEN same
        ELSE IF Z[o].invalid
        THEN {[pool |-> [P EXCEPT ![t].desc_sets = @ \ {he},
                                  ![t].alloc_desc_sets = Append(@, o)],
               zds |-> zink_descriptor_set_invalidate(Z, o)] : he \in m}
        ELSE {[pool |-> [P EXCEPT ![t].desc_sets = @ \ {he}],
               zds |-> [Z EXCEPT ![o].recycled = TRUE]] : he \in m}

\* zink_descriptor_set_recycle, lines 308-333: the (pool, zds) states it can leave
zink_descriptor_set_recycle(P, Z, o) ==
    LET t == Z[o].pool
        same == {[pool |-> P, zds |-> Z]}
        m == Search(P[t].desc_sets, Z, Z[o].hash, Z[o].key)
    IN  IF Z[o].refcount # 1 THEN same
        ELSE IF P[t].num_descriptors = 0 THEN same
        ELSE IF m = {} THEN same
        ELSE IF Z[o].invalid
        THEN {[pool |-> [P EXCEPT ![t].desc_sets = @ \ {he},
                                  ![t].alloc_desc_sets = Append(@, o)],
               zds |-> zink_descriptor_set_invalidate(Z, o)] : he \in m}
        ELSE LET Z1 == [Z EXCEPT ![o].recycled = TRUE]
             IN  UNION {{[pool |-> [P EXCEPT ![t].desc_sets = @ \ {he},
                                             ![t].free_desc_sets = f],
                          zds |-> Z1] :
                            f \in Insert(P[t].free_desc_sets, Z1, Z1[o].hash, o)} : he \in m}

\* zink_descriptor_set_recycle from line 316 on without the return of lines
\* 321-323: a set without an entry in desc_sets is moved all the same
zink_descriptor_set_recycle_rest_NoEntryTest(P, Z, o) ==
    LET t == Z[o].pool
        same == {[pool |-> P, zds |-> Z]}
        m == Search(P[t].desc_sets, Z, Z[o].hash, Z[o].key)
    IN  IF P[t].num_descriptors = 0 THEN same
        ELSE IF Z[o].invalid
        THEN {[pool |-> [P EXCEPT ![t].desc_sets = @ \ m,
                                  ![t].alloc_desc_sets = Append(@, o)],
               zds |-> zink_descriptor_set_invalidate(Z, o)]}
        ELSE LET Z1 == [Z EXCEPT ![o].recycled = TRUE]
             IN  {[pool |-> [P EXCEPT ![t].desc_sets = @ \ m,
                                      ![t].free_desc_sets = f],
                   zds |-> Z1] :
                     f \in Insert(P[t].free_desc_sets, Z1, Z1[o].hash, o)}

\* zink_descriptor_set_recycle from line 316 on, for a caller that has read a
\* reference count of 1 at line 313
zink_descriptor_set_recycle_rest(P, Z, o) ==
    LET t == Z[o].pool
        same == {[pool |-> P, zds |-> Z]}
        m == Search(P[t].desc_sets, Z, Z[o].hash, Z[o].key)
    IN  IF P[t].num_descriptors = 0 THEN same
        ELSE IF m = {} THEN same
        ELSE IF Z[o].invalid
        THEN {[pool |-> [P EXCEPT ![t].desc_sets = @ \ {he},
                                  ![t].alloc_desc_sets = Append(@, o)],
               zds |-> zink_descriptor_set_invalidate(Z, o)] : he \in m}
        ELSE LET Z1 == [Z EXCEPT ![o].recycled = TRUE]
             IN  UNION {{[pool |-> [P EXCEPT ![t].desc_sets = @ \ {he},
                                             ![t].free_desc_sets = f],
                          zds |-> Z1] :
                            f \in Insert(P[t].free_desc_sets, Z1, Z1[o].hash, o)} : he \in m}

\* ---------------------------------------------------------------- batches

\* zink_batch_add_desc_set: the batch takes a reference on a set it does not hold yet
zink_batch_add_desc_set(B, Z, b, o) ==
    IF o \in B[b] THEN [batches |-> B, zds |-> Z]
    ELSE [batches |-> [B EXCEPT ![b] = @ \cup {o}],
          zds |-> [Z EXCEPT ![o].refcount = @ + 1]]

\* a batch lets go of one set: it drops its reference and recycles the set
batch_release(P, Z, o) ==
    zink_descriptor_set_recycle(P, [Z EXCEPT ![o].refcount = @ - 1], o)

RECURSIVE release_all(_, _, _)
release_all(hs, order, i) ==
    IF i > Len(order) THEN hs
    ELSE release_all(UNION {batch_release(h.pool, h.zds, order[i]) : h \in hs}, order, i + 1)

\* zink_flush_batch as zink_descriptor_set_get uses it: the batch is submitted and
\* retires, releasing every set it holds, and recording goes on in an empty batch
zink_flush_batch(P, Z, held) ==
    UNION {release_all({[pool |-> P, zds |-> Z]}, order, 1) : order \in Orders(held)}


\* ------------------------------------------------- zink_descriptor_set_get

\* the bound of the model on the length of alloc_desc_sets
WithinBounds(P) == \A t \in Types : Len(P[t].alloc_desc_sets) <= MaxShells

NoCtx == [valid |-> [i \in Stages |-> FALSE], state |-> [i \in Stages |-> 0], hash |-> 0]
NoReq == [type |-> 0, ctx |-> NoCtx]
NoEntry == [hash |-> 0, zds |-> NULL]

\* what a zink_descriptor_set_get call reads first, lines 209-214
Hash(t, c) == IF pool[t].num_descriptors # 0 THEN c.hash ELSE 0
Key(c) == populate_zds_key(c, is_compute, NoKey)

\* one more operation of the run; it creates and destroys no pool, and it is not
\* a step of a zink_descriptor_set_recycle in progress
Tick == ops < limit /\ ops' = ops + 1 /\ limit' = limit /\ live' = live /\ rec' = rec

\* a call of zink_descriptor_set_get(ctx, batch, pg, t, is_compute, &cache_hit) with
\* the context in state c can run: a fresh call, or the recursive call of line 276
Calling(t, c) ==
    /\ pool[t].created
    /\ IF pc = "retry" THEN req.type = t /\ req.ctx = c
       ELSE pc = "idle" /\ c \in CtxStates(is_compute)

\* the condition of lines 215-216
LastSetMatch(t, c) ==
    /\ last_set[t] # NULL
    /\ zds[last_set[t]].hash = Hash(t, c)
    /\ desc_state_equal(zds[last_set[t]].key, Key(c))

ActiveHits(t, c) == Search(pool[t].desc_sets, zds, Hash(t, c), Key(c))
RecycleHits(t, c) == Search(pool[t].free_desc_sets, zds, Hash(t, c), Key(c))

\* a test that probes the active map only
MapsMiss_ActiveOnly(t, c) ==
    /\ ~LastSetMatch(t, c)
    /\ pool[t].num_descriptors # 0
    /\ ActiveHits(t, c) = {}

\* both probes of lines 227-250 miss
MapsMiss(t, c) ==
    /\ ~LastSetMatch(t, c)
    /\ pool[t].num_descriptors # 0
    /\ ActiveHits(t, c) = {}
    /\ RecycleHits(t, c) = {}

\* a scan that reclaims invalidated sets only, whatever the count
scan_OnlyInvalidated(order, Z, count) ==
    LET hits == {i \in (count + 1) .. Len(order) :
                    get_invalidated_desc_set(Z[order[i].zds])}
    IN  IF hits = {} THEN NoEntry
        ELSE order[CHOOSE i \in hits : \A j \in hits : i <= j]

\* a scan whose count is one ahead: it takes a valid set one entry early
scan_OneEarly(order, Z, count) ==
    LET hits == {i \in (count + 1) .. Len(order) :
                    \/ (i >= ScanLimit /\ Z[order[i].zds].refcount = 1)
                    \/ get_invalidated_desc_set(Z[order[i].zds])}
    IN  IF hits = {} THEN NoEntry
        ELSE order[CHOOSE i \in hits : \A j \in hits : i <= j]

RECURSIVE scan(_, _, _)
\* the loop of lines 261-270 over the entries in the order the table yields them
scan(order, Z, count) ==
    IF count >= Len(order) THEN NoEntry
    ELSE LET he == order[count + 1]
             tmp == Z[he.zds]
         IN  IF (count >= ScanLimit /\ tmp.refcount = 1) \/ get_invalidated_desc_set(tmp)
             THEN he
             ELSE scan(order, Z, count + 1)

\* lines 252-271 found nothing: no shell, and the scan (in table order `order`) selects nothing
NothingFree(t, c, order) ==
    /\ MapsMiss(t, c)
    /\ Len(pool[t].alloc_desc_sets) = 0
    /\ order \in Orders(pool[t].free_desc_sets)
    /\ scan(order, zds, 0) = NoEntry

\* a capacity test that leaves no room for the bucket about to be allocated
Exhausted_NoHeadroom(p) == p.num_sets_allocated > ZINK_DEFAULT_MAX_DESCS

\* the capacity test of line 273
Exhausted(p) == p.num_sets_allocated + p.num_descriptors > ZINK_DEFAULT_MAX_DESCS

\* what the last operation was: for zink_descriptor_set_get, the set it returned,
\* *cache_hit and the line it took the set from
Returned(o, hit, path) == [op |-> "get", zds |-> o, cache_hit |-> hit, path |-> path]

Did(op, o) == [op |-> op, zds |-> o, cache_hit |-> FALSE, path |-> ""]

\* quick_out without the assignment of line 301
quick_out_KeepsInvalid(t, c, o, hit, path, P, Z, LS) ==
    LET added == zink_batch_add_desc_set(batches, Z, curr, o)
    IN  /\ pool' = P
        /\ zds' = added.zds
        /\ batches' = added.batches
        /\ last_set' = [LS EXCEPT ![t] = o]
        /\ pc' = "idle"
        /\ req' = NoReq
        /\ ret' = Returned(o, hit, path)
        /\ UNCHANGED <<is_compute, num_resources, refs, curr>>

\* quick_out, lines 300-305
quick_out(t, c, o, hit, path, P, Z, LS) ==
    LET added == zink_batch_add_desc_set(batches, [Z EXCEPT ![o].invalid = FALSE], curr, o)
    IN  /\ pool' = P
        /\ zds' = added.zds
        /\ batches' = added.batches
        /\ last_set' = [LS EXCEPT ![t] = o]
        /\ pc' = "idle"
        /\ req' = NoReq
        /\ ret' = Returned(o, hit, path)
        /\ UNCHANGED <<is_compute, num_resources, refs, curr>>

\* out without the assignment of line 290
out_KeepsRecycled(t, c, o, hit, path, P, Z) ==
    LET Z2 == [Z EXCEPT ![o].hash = Hash(t, c),
                        ![o].key = populate_zds_key(c, is_compute, Z[o].key)]
    IN  IF P[t].num_descriptors # 0
        THEN \E ds \in Insert(P[t].desc_sets, Z2, Hash(t, c), o) :
                quick_out(t, c, o, hit, path, [P EXCEPT ![t].desc_sets = ds], Z2, last_set)
        ELSE quick_out(t, c, o, hit, path, P, Z2,
                [i \in Types |->
                    IF P[i].created /\ P[i].num_descriptors = 0 THEN o ELSE last_set[i]])

\* out, lines 287-299, then quick_out
out(t, c, o, hit, path, P, Z) ==
    LET Z2 == [Z EXCEPT ![o].hash = Hash(t, c),
                        ![o].key = populate_zds_key(c, is_compute, Z[o].key),
                        ![o].recycled = FALSE]
    IN  IF P[t].num_descriptors # 0
        THEN \E ds \in Insert(P[t].desc_sets, Z2, Hash(t, c), o) :
                quick_out(t, c, o, hit, path, [P EXCEPT ![t].desc_sets = ds], Z2, last_set)
        ELSE quick_out(t, c, o, hit, path, P, Z2,
                [i \in Types |->
                    IF P[i].created /\ P[i].num_descriptors = 0 THEN o ELSE last_set[i]])

\* lines 215-225: the last set of the type matches
GetLastSet(t, c) ==
    /\ Tick
    /\ Calling(t, c)
    /\ LastSetMatch(t, c)
    /\ LET ls == last_set[t]
           hits == RecycleHits(t, c)
           frees == IF pool[t].num_descriptors # 0 /\ zds[ls].recycled /\ hits # {}
                    THEN {pool[t].free_desc_sets \ {he} : he \in hits}
                    ELSE {pool[t].free_desc_sets}
       IN  /\ resources' = resources
           /\ \E f \in frees :
                out(t, c, ls, ~zds[ls].invalid, "last_set",
                    [pool EXCEPT ![t].free_desc_sets = f], zds)

\* lines 227-236 and 241-249: a hit in desc_sets. On an invalid hit this is the
\* build with NDEBUG, where line 235 is compiled out (see GetAssertFail).
GetActiveHit(t, c) ==
    /\ Tick
    /\ Calling(t, c)
    /\ ~LastSetMatch(t, c)
    /\ pool[t].num_descriptors # 0
    /\ \E he \in ActiveHits(t, c) :
        /\ resources' = resources
        /\ quick_out(t, c, he.zds, ~zds[he.zds].invalid, "active", pool, zds, last_set)

\* line 235 in a build without NDEBUG: assert(!zds->invalid) fails and the
\* process aborts
GetAssertFail(t, c) ==
    /\ Tick
    /\ Calling(t, c)
    /\ ~LastSetMatch(t, c)
    /\ pool[t].num_descriptors # 0
    /\ \E he \in ActiveHits(t, c) :
        /\ zds[he.zds].invalid
        /\ pc' = "abort"
        /\ ret' = Did("abort", he.zds)
    /\ UNCHANGED <<is_compute, num_resources, pool, zds, resources, refs,
                   last_set, batches, curr, req>>

\* GetRecycleHit with *cache_hit = true in place of line 243
GetRecycleHit_AlwaysHit(t, c) ==
    /\ Tick
    /\ Calling(t, c)
    /\ ~LastSetMatch(t, c)
    /\ pool[t].num_descriptors # 0
    /\ ActiveHits(t, c) = {}
    /\ \E he \in RecycleHits(t, c) :
        /\ resources' = resources
        /\ out(t, c, he.zds, TRUE, "recycled",
               [pool EXCEPT ![t].free_desc_sets = @ \ {he}], zds)

\* lines 237-248: a hit in free_desc_sets moves back to desc_sets
GetRecycleHit(t, c) ==
    /\ Tick
    /\ Calling(t, c)
    /\ ~LastSetMatch(t, c)
    /\ pool[t].num_descriptors # 0
    /\ ActiveHits(t, c) = {}
    /\ \E he \in RecycleHits(t, c) :
        /\ resources' = resources
        /\ out(t, c, he.zds, ~zds[he.zds].invalid, "recycled",
               [pool EXCEPT ![t].free_desc_sets = @ \ {he}], zds)

\* lines 252-256: pop the last set of alloc_desc_sets
GetShell(t, c) ==
    /\ Tick
    /\ Calling(t, c)
    /\ MapsMiss(t, c)
    /\ Len(pool[t].alloc_desc_sets) > 0
    /\ LET a == pool[t].alloc_desc_sets
       IN  /\ resources' = resources
           /\ out(t, c, a[Len(a)], FALSE, "shell",
                  [pool EXCEPT ![t].alloc_desc_sets = SubSeq(a, 1, Len(a) - 1)], zds)

\* lines 258-271: the scan of free_desc_sets selects an entry
GetScan(t, c) ==
    /\ Tick
    /\ Calling(t, c)
    /\ MapsMiss(t, c)
    /\ Len(pool[t].alloc_desc_sets) = 0
    /\ \E order \in Orders(pool[t].free_desc_sets) :
        LET he == scan(order, zds, 0)
        IN  /\ he # NoEntry
            /\ resources' = resources
            /\ out(t, c, he.zds, FALSE, "scan",
                   [pool EXCEPT ![t].free_desc_sets = @ \ {he}],
                   zink_descriptor_set_invalidate(zds, he.zds))

\* lines 273-277: the pool is at capacity: flush the batch and call again
GetFlush(t, c) ==
    /\ Tick
    /\ Calling(t, c)
    /\ \E order \in Orders(pool[t].free_desc_sets) : NothingFree(t, c, order)
    /\ Exhausted(pool[t])
    /\ \E h \in zink_flush_batch(pool, zds, batches[curr]) :
        /\ WithinBounds(h.pool)
        /\ pool' = h.pool
        /\ zds' = h.zds
    /\ batches' = [batches EXCEPT ![curr] = {}]
    /\ pc' = "retry"
    /\ req' = [type |-> t, ctx |-> c]
    /\ ret' = Did("flush", NULL)
    /\ UNCHANGED <<is_compute, num_resources, resources, refs, last_set, curr>>

\* line 286 can be reached: lines 227-277 for a pool with descriptors
CanAllocate(t, c) ==
    /\ \E order \in Orders(pool[t].free_desc_sets) : NothingFree(t, c, order)
    /\ ~Exhausted(pool[t])

\* lines 286-305: a new bucket; its first set is returned
GetAlloc(t, c) ==
    /\ Tick
    /\ Calling(t, c)
    /\ CanAllocate(t, c)
    /\ LET a == allocate_desc_set(pool, zds, resources, t, num_resources[t], 1)
       IN  /\ resources' = a.resources
           /\ out(t, c, a.alloc, FALSE, "alloc", a.pool, a.zds)

\* lines 143-146 and 288: vkAllocateDescriptorSets fails, allocate_desc_set returns
\* VK_NULL_HANDLE and line 288 writes through the null pointer
GetAllocFail(t, c) ==
    /\ Tick
    /\ Calling(t, c)
    /\ CanAllocate(t, c)
    /\ pc' = "segv"
    /\ ret' = Did("segv", NULL)
    /\ UNCHANGED <<is_compute, num_resources, pool, zds, resources, refs,
                   last_set, batches, curr, req>>

\* ------------------------------------------------------- other operations

\* a batch other than the recording one retires a set it holds: it drops its
\* reference and calls zink_descriptor_set_recycle
Release(b, o) ==
    /\ Tick
    /\ pc = "idle"
    /\ b # curr
    /\ o \in batches[b]
    /\ \E h \in batch_release(pool, zds, o) :
        /\ WithinBounds(h.pool)
        /\ pool' = h.pool
        /\ zds' = h.zds
    /\ batches' = [batches EXCEPT ![b] = @ \ {o}]
    /\ ret' = Did("recycle", o)
    /\ UNCHANGED <<is_compute, num_resources, resources, refs, last_set, curr,
                   pc, req>>

\* the recording batch is submitted; recording goes on in a batch that has retired
Submit(b) ==
    /\ Tick
    /\ pc = "idle"
    /\ b # curr
    /\ batches[curr] # {}
    /\ batches[b] = {}
    /\ curr' = b
    /\ ret' = Did("submit", NULL)
    /\ UNCHANGED <<is_compute, num_resources, pool, zds, resources, refs,
                   last_set, batches, pc, req>>

\* zink_descriptor_set_invalidate called on a set, lines 496-500 (on a set that
\* is invalid already the call changes nothing and is left out)
Invalidate(o) ==
    /\ Tick
    /\ pc = "idle"
    /\ o \in DOMAIN zds
    /\ ~zds[o].invalid
    /\ zds' = zink_descriptor_set_invalidate(zds, o)
    /\ ret' = Did("invalidate", NULL)
    /\ UNCHANGED <<is_compute, num_resources, pool, resources, refs, last_set,
                   batches, curr, pc, req>>

\* the address of slot idx of set o: &zds->resources[idx], lines 170-173
Slot(Z, o, idx) == [alloc |-> Z[o].alloc, cell |-> Z[o].base + idx + 1]

\* desc_set_ref_add, lines 336-343
desc_set_ref_add(R, F, Z, o, idx, ptr) ==
    LET s == Slot(Z, o, idx)
    IN  [resources |-> [R EXCEPT ![s.alloc][s.cell] = ptr],
         refs |-> IF ptr # NULL
                  THEN [F EXCEPT ![ptr] = @ \cup {[alloc |-> s.alloc, cell |-> s.cell, zds |-> o]}]
                  ELSE F]

\* zink_resource_desc_set_add and its siblings, lines 345-367: the caller of
\* zink_descriptor_set_get writes a slot of the set it was handed
Bind(idx, ptr) ==
    /\ Tick
    /\ pc = "idle"
    /\ ret.op \in {"get", "bind"}
    /\ idx \in 0 .. (num_resources[zds[ret.zds].pool] - 1)
    /\ LET a == desc_set_ref_add(resources, refs, zds, ret.zds, idx, ptr)
       IN  /\ resources' = a.resources
           /\ refs' = a.refs
    /\ ret' = [ret EXCEPT !.op = "bind"]
    /\ UNCHANGED <<is_compute, num_resources, pool, zds, last_set, batches,
                   curr, pc, req>>

\* zink_descriptor_set_refs_clear without the test of line 373: every reference
\* of the list is followed, whatever its slot holds now
zink_descriptor_set_refs_clear_NoSlotTest(R, Z, rs, ptr) ==
    [resources |-> [a \in DOMAIN R |-> [k \in DOMAIN R[a] |->
                      IF \E ref \in rs : ref.alloc = a /\ ref.cell = k
                      THEN NULL ELSE R[a][k]]],
     zds |-> [o \in DOMAIN Z |->
                IF \E ref \in rs : ref.zds = o
                THEN [Z[o] EXCEPT !.invalid = TRUE] ELSE Z[o]]]

\* zink_descriptor_set_refs_clear, lines 369-379
zink_descriptor_set_refs_clear(R, Z, rs, ptr) ==
    LET hit == {ref \in rs : R[ref.alloc][ref.cell] = ptr}
    IN  [resources |-> [a \in DOMAIN R |-> [k \in DOMAIN R[a] |->
                          IF \E ref \in hit : ref.alloc = a /\ ref.cell = k
                          THEN NULL ELSE R[a][k]]],
         zds |-> [o \in DOMAIN Z |->
                    IF \E ref \in hit : ref.zds = o
                    THEN [Z[o] EXCEPT !.invalid = TRUE] ELSE Z[o]]]

\* a resource is destroyed: its back-references are cleared and discarded
RefsClear(ptr) ==
    /\ Tick
    /\ pc = "idle"
    /\ LET a == zink_descriptor_set_refs_clear(resources, zds, refs[ptr], ptr)
       IN  /\ resources' = a.resources
           /\ zds' = a.zds
    /\ refs' = [refs EXCEPT ![ptr] = {}]
    /\ ret' = Did("refs_clear", ptr)
    /\ UNCHANGED <<is_compute, num_resources, pool, last_set, batches, curr,
                   pc, req>>

\* the thread that retires batches lets go of a set of a batch that is not
\* recording: it drops the reference and runs zink_descriptor_set_recycle up to
\* the test of the reference count, lines 311-315
RecycleBegin(b, o) ==
    /\ ops < limit
    /\ pc \in {"idle", "retry"}
    /\ rec = NULL
    /\ b # curr
    /\ o \in batches[b]
    /\ zds' = [zds EXCEPT ![o].refcount = @ - 1]
    /\ batches' = [batches EXCEPT ![b] = @ \ {o}]
    /\ rec' = IF zds'[o].refcount = 1 THEN o ELSE NULL
    /\ ops' = ops + 1
    /\ ret' = Did("recycle_begin", o)
    /\ UNCHANGED <<is_compute, num_resources, pool, resources, refs, last_set, curr,
                   pc, req, limit, live>>

\* that thread goes on with lines 316-333
RecycleEnd ==
    /\ ops < limit
    /\ pc \in {"idle", "retry"}
    /\ rec # NULL
    /\ \E h \in zink_descriptor_set_recycle_rest(pool, zds, rec) :
        /\ WithinBounds(h.pool)
        /\ pool' = h.pool
        /\ zds' = h.zds
    /\ rec' = NULL
    /\ ops' = ops + 1
    /\ ret' = Did("recycle", rec)
    /\ UNCHANGED <<is_compute, num_resources, resources, refs, last_set, batches,
                   curr, pc, req, limit, live>>

\* zink_descriptor_program_init is called for the program; when it fails the
\* program is not used
ProgramInit(nb, fail) ==
    /\ pc = "setup"
    /\ LET r == zink_descriptor_program_init(nb, fail)
       IN  /\ num_resources' = nb
           /\ pool' = r.pool
           /\ live' = r.live
           /\ pc' = IF r.ok THEN "idle" ELSE "failed"
           /\ ret' = [op |-> "program_init", zds |-> NULL, cache_hit |-> FALSE,
                      path |-> r.step, ok |-> r.ok, calls |-> r.calls]
    /\ UNCHANGED <<is_compute, zds, resources, refs, last_set, batches, curr, req,
                   ops, limit, rec>>

\* the keys populate_zds_key can write for a graphics program that uses the
\* descriptor type in one stage at least: any pattern of stages, and for every
\* stage, used or not, the revision the context has for it (lines 191-194)
Keys ==
    {[exists |-> e, state |-> st] :
        e \in {x \in [Stages -> BOOLEAN] : \E i \in Stages : x[i]},
        st \in [Stages -> 0 .. MaxKeyRev]}

\* a hash table calls its hash function, desc_state_hash, on two keys
HashKeys ==
    /\ pc = "keys"
    /\ pc' = "hashed"
    /\ ret' = [op |-> "hash", zds |-> NULL, cache_hit |-> FALSE, path |-> "",
               ha |-> desc_state_hash(req.a), hb |-> desc_state_hash(req.b)]
    /\ UNCHANGED <<is_compute, num_resources, pool, zds, resources, refs, last_set,
                   batches, curr, req, ops, limit, live, rec>>

\* and its comparison function, desc_state_equal
CompareKeys ==
    /\ pc = "hashed"
    /\ pc' = "compared"
    /\ ret' = [op |-> "equal", zds |-> NULL, cache_hit |-> FALSE, path |-> "",
               ha |-> ret.ha, hb |-> ret.hb, eq |-> desc_state_equal(req.a, req.b)]
    /\ UNCHANGED <<is_compute, num_resources, pool, zds, resources, refs, last_set,
                   batches, curr, req, ops, limit, live, rec>>

\* ------------------------------------------------------------ specification

\* the program after zink_descriptor_program_init for a layout of nd bindings
\* of type 0 and none of the types above it: type 0 has a pool
InitWith(nd, lim) ==
    /\ is_compute = FALSE
    /\ num_resources = [t \in Types |-> IF t = 0 THEN nd ELSE 0]
    /\ pool = [t \in Types |-> IF t = 0 THEN descriptor_pool_create(nd) ELSE NoPool]
    /\ zds = <<>>
    /\ resources = <<>>
    /\ refs = [r \in Resources |-> {}]
    /\ last_set = [t \in Types |-> NULL]
    /\ batches = [b \in BatchIds |-> {}]
    /\ curr = 1
    /\ pc = "idle"
    /\ req = NoReq
    /\ ret = Did("init", NULL)
    /\ ops = 0
    /\ limit = lim
    /\ live = {<<0, part>> : part \in PoolParts}
    /\ rec = NULL

Init == InitWith(1, MaxOps)

\* layouts of every size up to MaxDescriptors
InitSchema == \E nd \in 1 .. MaxDescriptors : InitWith(nd, MaxOpsSchema)

Next ==
    \/ \E t \in Types, c \in CtxStates(is_compute) : GetLastSet(t, c)
    \/ \E t \in Types, c \in CtxStates(is_compute) : GetActiveHit(t, c)
    \/ \E t \in Types, c \in CtxStates(is_compute) : GetAssertFail(t, c)
    \/ \E t \in Types, c \in CtxStates(is_compute) : GetRecycleHit(t, c)
    \/ \E t \in Types, c \in CtxStates(is_compute) : GetShell(t, c)
    \/ \E t \in Types, c \in CtxStates(is_compute) : GetScan(t, c)
    \/ \E t \in Types, c \in CtxStates(is_compute) : GetFlush(t, c)
    \/ \E t \in Types, c \in CtxStates(is_compute) : GetAlloc(t, c)
    \/ \E t \in Types, c \in CtxStates(is_compute) : GetAllocFail(t, c)
    \/ \E b \in BatchIds, o \in DOMAIN zds : Release(b, o)
    \/ \E b \in BatchIds : Submit(b)
    \/ \E o \in DOMAIN zds : Invalidate(o)
    \/ \E ptr \in Resources : Bind(0, ptr)
    \/ \E ptr \in Resources : RefsClear(ptr)

\* the program before zink_descriptor_program_init
InitProgram ==
    /\ is_compute = FALSE
    /\ num_resources = [t \in Types |-> 0]
    /\ pool = [t \in Types |-> NoPool]
    /\ zds = <<>>
    /\ resources = <<>>
    /\ refs = [r \in Resources |-> {}]
    /\ last_set = [t \in Types |-> NULL]
    /\ batches = [b \in BatchIds |-> {}]
    /\ curr = 1
    /\ pc = "setup"
    /\ req = NoReq
    /\ ret = Did("init", NULL)
    /\ ops = 0
    /\ limit = MaxOpsProgram
    /\ live = {}
    /\ rec = NULL

NextProgram ==
    \/ \E nb \in [Types -> 0 .. MaxDescriptors], fail \in [Types -> 0 .. Len(PoolSteps)] :
            ProgramInit(nb, fail)
    \/ Next

\* the operations of the thread that records, and zink_descriptor_set_recycle
\* on the thread that retires batches, in two steps
NextThreads ==
    \/ \E t \in Types, c \in CtxStates(is_compute) : GetLastSet(t, c)
    \/ \E t \in Types, c \in CtxStates(is_compute) : GetActiveHit(t, c)
    \/ \E t \in Types, c \in CtxStates(is_compute) : GetAssertFail(t, c)
    \/ \E t \in Types, c \in CtxStates(is_compute) : GetRecycleHit(t, c)
    \/ \E t \in Types, c \in CtxStates(is_compute) : GetShell(t, c)
    \/ \E t \in Types, c \in CtxStates(is_compute) : GetScan(t, c)
    \/ \E t \in Types, c \in CtxStates(is_compute) : GetFlush(t, c)
    \/ \E t \in Types, c \in CtxStates(is_compute) : GetAlloc(t, c)
    \/ \E t \in Types, c \in CtxStates(is_compute) : GetAllocFail(t, c)
    \/ \E b \in BatchIds, o \in DOMAIN zds : RecycleBegin(b, o)
    \/ RecycleEnd
    \/ \E b \in BatchIds : Submit(b)
    \/ \E o \in DOMAIN zds : Invalidate(o)
    \/ \E ptr \in Resources : Bind(0, ptr)
    \/ \E ptr \in Resources : RefsClear(ptr)

\* two keys in the hands of a hash table of a pool
InitHash ==
    /\ is_compute = FALSE
    /\ num_resources = [t \in Types |-> 0]
    /\ pool = [t \in Types |-> NoPool]
    /\ zds = <<>>
    /\ resources = <<>>
    /\ refs = [r \in Resources |-> {}]
    /\ last_set = [t \in Types |-> NULL]
    /\ batches = [b \in BatchIds |-> {}]
    /\ curr = 1
    /\ pc = "keys"
    /\ req \in {[a |-> ka, b |-> kb] : ka \in Keys, kb \in Keys}
    /\ ret = Did("init", NULL)
    /\ ops = 0
    /\ limit = 0
    /\ live = {}
    /\ rec = NULL

NextHash == HashKeys \/ CompareKeys

Spec == Init /\ [][Next]_vars

\* desc_state_hash and desc_state_equal applied to every pair of keys
SpecHash == InitHash /\ [][NextHash]_vars

InitThreads == InitWith(1, MaxOpsThreads)

\* zink_descriptor_set_recycle runs beside the operations of the recording thread
SpecThreads == InitThreads /\ [][NextThreads]_vars

\* every layout, every outcome of zink_descriptor_program_init, then the operations
SpecProgram == InitProgram /\ [][NextProgram]_vars

SpecSchema == InitSchema /\ [][Next]_vars

\* ------------------------------------------- the bucket size of allocate_desc_set

\* the largest descs_used and, in buckets of DESC_BUCKET_FACTOR sets, the largest
\* room left below ZINK_DEFAULT_MAX_DESCS that allocate_desc_set is called with
MaxDescsUsed == 9
MaxRoom == 4

\* a call of allocate_desc_set: descs_used, the num_descriptors of the pool and
\* what the pool has left below the ceiling (line 273 let the call through, and
\* num_sets_allocated grows by whole buckets)
BucketCalls ==
    {[descs_used |-> n, num_descriptors |-> nd, room |-> j * DESC_BUCKET_FACTOR] :
        n \in 1 .. MaxDescsUsed, nd \in 0 .. MaxDescriptors, j \in 1 .. MaxRoom}

InitBucket ==
    /\ is_compute = FALSE
    /\ num_resources = [t \in Types |-> 0]
    /\ pool = [t \in Types |-> NoPool]
    /\ zds = <<>>
    /\ resources = <<>>
    /\ refs = [r \in Resources |-> {}]
    /\ last_set = [t \in Types |-> NULL]
    /\ batches = [b \in BatchIds |-> {}]
    /\ curr = 1
    /\ pc = "sizing"
    /\ req \in BucketCalls
    /\ ret = Did("init", NULL)
    /\ ops = 0
    /\ limit = 0
    /\ live = {}
    /\ rec = NULL

\* lines 127-131 of the call
SizeBucket ==
    /\ pc = "sizing"
    /\ pc' = "sized"
    /\ ret' = [op |-> "bucket", zds |-> NULL, cache_hit |-> FALSE, path |-> "",
               bucket_size |-> BucketSize(req.num_descriptors, req.descs_used)]
    /\ UNCHANGED <<is_compute, num_resources, pool, zds, resources, refs, last_set,
                   batches, curr, req, ops, limit, live, rec>>

NextBucket == SizeBucket

\* the bucket size of allocate_desc_set for every call
SpecBucket == InitBucket /\ [][NextBucket]_vars

\* ------------------------------------------ several resources bound to the slots

\* the resources of the specification with several resources, and its longest run
NumResourcesRefs == 2
MaxOpsRefs == 6

\* as InitWith for every layout, with NumResourcesRefs resources to bind
InitRefs ==
    \E nd \in 1 .. MaxDescriptors :
        /\ is_compute = FALSE
        /\ num_resources = [t \in Types |-> IF t = 0 THEN nd ELSE 0]
        /\ pool = [t \in Types |-> IF t = 0 THEN descriptor_pool_create(nd) ELSE NoPool]
        /\ zds = <<>>
        /\ resources = <<>>
        /\ refs = [r \in 1 .. NumResourcesRefs |-> {}]
        /\ last_set = [t \in Types |-> NULL]
        /\ batches = [b \in BatchIds |-> {}]
        /\ curr = 1
        /\ pc = "idle"
        /\ req = NoReq
        /\ ret = Did("init", NULL)
        /\ ops = 0
        /\ limit = MaxOpsRefs
        /\ live = {<<0, part>> : part \in PoolParts}
        /\ rec = NULL

NextRefs ==
    \/ \E t \in Types, c \in CtxStates(is_compute) : GetLastSet(t, c)
    \/ \E t \in Types, c \in CtxStates(is_compute) : GetActiveHit(t, c)
    \/ \E t \in Types, c \in CtxStates(is_compute) : GetAssertFail(t, c)
    \/ \E t \in Types, c \in CtxStates(is_compute) : GetRecycleHit(t, c)
    \/ \E t \in Types, c \in CtxStates(is_compute) : GetShell(t, c)
    \/ \E t \in Types, c \in CtxStates(is_compute) : GetScan(t, c)
    \/ \E t \in Types, c \in CtxStates(is_compute) : GetFlush(t, c)
    \/ \E t \in Types, c \in CtxStates(is_compute) : GetAlloc(t, c)
    \/ \E t \in Types, c \in CtxStates(is_compute) : GetAllocFail(t, c)
    \/ \E b \in BatchIds, o \in DOMAIN zds : Release(b, o)
    \/ \E b \in BatchIds : Submit(b)
    \/ \E o \in DOMAIN zds : Invalidate(o)
    \/ \E idx \in 0 .. (MaxDescriptors - 1), ptr \in DOMAIN refs : Bind(idx, ptr)
    \/ \E ptr \in DOMAIN refs : RefsClear(ptr)

\* the operations with several resources and every slot of a set bound
SpecRefs == InitRefs /\ [][NextRefs]_vars

\* ----------------------------------------------------- the end of a pool

\* the longest run of the specification with zink_descriptor_pool_free
MaxOpsDestroy == 5

\* descriptor_pool_clear, lines 502-512 (compiled without NDEBUG only): every
\* set the table holds is invalidated
descriptor_pool_clear(Z, ht) ==
    [o \in DOMAIN Z |-> IF \E he \in ht : he.zds = o
                        THEN zink_descriptor_set_invalidate(Z, o)[o] ELSE Z[o]]

\* lines 524-529 that clear desc_sets only
pool_free_sets_ActiveOnly(P, Z, t, ndebug) ==
    IF ndebug THEN Z ELSE descriptor_pool_clear(Z, P[t].desc_sets)

\* lines 524-529 of zink_descriptor_pool_free: the sets after them, in the
\* build with NDEBUG and in the build without
pool_free_sets(P, Z, t, ndebug) ==
    IF ndebug THEN Z
    ELSE descriptor_pool_clear(descriptor_pool_clear(Z, P[t].desc_sets),
                               P[t].free_desc_sets)

\* zink_descriptor_pool_free(screen, pg->pool[t]), lines 514-537, called when
\* the program goes away; for a type without pool it is the return of line 518
PoolFree(t, ndebug) ==
    /\ ops < limit
    /\ pc = "idle"
    /\ IF pool[t].created
       THEN /\ zds' = pool_free_sets(pool, zds, t, ndebug)
            /\ pool' = [pool EXCEPT ![t] = NoPool]
            /\ live' = {x \in live : x[1] # t} \cup
                       {<<t, part>> : part \in
                            zink_descriptor_pool_free({x[2] : x \in {y \in live : y[1] = t}})}
       ELSE UNCHANGED <<zds, pool, live>>
    /\ pc' = "freed"
    /\ ops' = ops + 1
    /\ ret' = [op |-> "pool_free", zds |-> NULL, cache_hit |-> FALSE,
               path |-> IF ndebug THEN "NDEBUG" ELSE "assertions", type |-> t]
    /\ UNCHANGED <<is_compute, num_resources, resources, refs, last_set, batches,
                   curr, req, limit, rec>>

InitDestroy ==
    /\ is_compute = FALSE
    /\ num_resources = [t \in Types |-> 0]
    /\ pool = [t \in Types |-> NoPool]
    /\ zds = <<>>
    /\ resources = <<>>
    /\ refs = [r \in Resources |-> {}]
    /\ last_set = [t \in Types |-> NULL]
    /\ batches = [b \in BatchIds |-> {}]
    /\ curr = 1
    /\ pc = "setup"
    /\ req = NoReq
    /\ ret = Did("init", NULL)
    /\ ops = 0
    /\ limit = MaxOpsDestroy
    /\ live = {}
    /\ rec = NULL

NextDestroy ==
    \/ NextProgram
    \/ \E t \in Types, ndebug \in BOOLEAN : PoolFree(t, ndebug)

\* zink_descriptor_program_init, the operations, and the pools freed in the end
SpecDestroy == InitDestroy /\ [][NextDestroy]_vars

\* -------------------------------------------- the flush of lines 273-277 in steps

\* the longest run of the specification with the flush in steps
MaxOpsFlush == 7

\* line 274 with a retry that goes on in the batch it was called with
FlushBatch_KeepsBatch(t, c) ==
    /\ Tick
    /\ Calling(t, c)
    /\ \E order \in Orders(pool[t].free_desc_sets) : NothingFree(t, c, order)
    /\ Exhausted(pool[t])
    /\ \E b \in BatchIds \ {curr} :
        /\ \E h1 \in zink_flush_batch(pool, zds, batches[curr]) :
             \E h \in zink_flush_batch(h1.pool, h1.zds, batches[b]) :
                /\ WithinBounds(h.pool)
                /\ pool' = h.pool
                /\ zds' = h.zds
        /\ batches' = [batches EXCEPT ![curr] = {}, ![b] = {}]
        /\ curr' = curr
        /\ req' = [type |-> t, ctx |-> c, flushed |-> curr, batch |-> b, pg |-> NULL]
    /\ pc' = "flushed"
    /\ ret' = Did("flush", NULL)
    /\ UNCHANGED <<is_compute, num_resources, resources, refs, last_set>>

\* lines 273-274, batch = zink_flush_batch(ctx, batch): the batch of the caller
\* is submitted and retires; the batch that is returned is another one, reset
\* before recording goes on in it. req keeps the batch that was flushed, the
\* batch that was returned and the batch the program is referenced by.
FlushBatch(t, c) ==
    /\ Tick
    /\ Calling(t, c)
    /\ \E order \in Orders(pool[t].free_desc_sets) : NothingFree(t, c, order)
    /\ Exhausted(pool[t])
    /\ \E b \in BatchIds \ {curr} :
        /\ \E h1 \in zink_flush_batch(pool, zds, batches[curr]) :
             \E h \in zink_flush_batch(h1.pool, h1.zds, batches[b]) :
                /\ WithinBounds(h.pool)
                /\ pool' = h.pool
                /\ zds' = h.zds
        /\ batches' = [batches EXCEPT ![curr] = {}, ![b] = {}]
        /\ curr' = b
        /\ req' = [type |-> t, ctx |-> c, flushed |-> curr, batch |-> b, pg |-> NULL]
    /\ pc' = "flushed"
    /\ ret' = Did("flush", NULL)
    /\ UNCHANGED <<is_compute, num_resources, resources, refs, last_set>>

\* line 275, zink_batch_reference_program(batch, pg); the recursive call of line
\* 276 is next
ReferenceProgram ==
    /\ Tick
    /\ pc = "flushed"
    /\ req' = [req EXCEPT !.pg = req.batch]
    /\ pc' = "retry"
    /\ ret' = Did("reference_program", NULL)
    /\ UNCHANGED <<is_compute, num_resources, pool, zds, resources, refs,
                   last_set, batches, curr>>

InitFlush == InitWith(1, MaxOpsFlush)

NextFlush ==
    \/ \E t \in Types, c \in CtxStates(is_compute) : GetLastSet(t, c)
    \/ \E t \in Types, c \in CtxStates(is_compute) : GetActiveHit(t, c)
    \/ \E t \in Types, c \in CtxStates(is_compute) : GetAssertFail(t, c)
    \/ \E t \in Types, c \in CtxStates(is_compute) : GetRecycleHit(t, c)
    \/ \E t \in Types, c \in CtxStates(is_compute) : GetShell(t, c)
    \/ \E t \in Types, c \in CtxStates(is_compute) : GetScan(t, c)
    \/ \E t \in Types, c \in CtxStates(is_compute) : FlushBatch(t, c)
    \/ ReferenceProgram
    \/ \E t \in Types, c \in CtxStates(is_compute) : GetAlloc(t, c)
    \/ \E t \in Types, c \in CtxStates(is_compute) : GetAllocFail(t, c)
    \/ \E b \in BatchIds, o \in DOMAIN zds : Release(b, o)
    \/ \E b \in BatchIds : Submit(b)
    \/ \E o \in DOMAIN zds : Invalidate(o)
    \/ \E ptr \in Resources : Bind(0, ptr)
    \/ \E ptr \in Resources : RefsClear(ptr)

\* the operations with the flush of zink_descriptor_set_get in steps
SpecFlush == InitFlush /\ [][NextFlush]_vars

\* ------------------------------------------------------------------ claims

\* the resource a slot of a set points at
SlotValue(Z, R, o, idx) == R[Slot(Z, o, idx).alloc][Slot(Z, o, idx).cell]

\* the slots of a set
SlotsOf(o) == 0 .. (num_resources[zds[o].pool] - 1)

\* this step is an operation, and it is a zink_descriptor_set_get that returned
Step == ops' = ops + 1
GetReturned == Step /\ ret'.op = "get"

\* a batch holds set o before the step
WasHeld(o) == o \in DOMAIN zds /\ zds[o].refcount > 1

\* the fingerprint set o carried before the step is the one the returning
\* zink_descriptor_set_get was called with (the returned set carries it after)
AskedFingerprintOf(o) ==
    /\ zds'[ret'.zds].pool = zds[o].pool
    /\ zds'[ret'.zds].hash = zds[o].hash
    /\ desc_state_equal(zds'[ret'.zds].key, zds[o].key)

\* C1: a set that a batch still holds (refcount > 1) under fingerprint F1 is
\* never returned by zink_descriptor_set_get for a different fingerprint F2.
C1_NoAliasing ==
    [][GetReturned /\ WasHeld(ret'.zds)
       => desc_state_equal(zds[ret'.zds].key, zds'[ret'.zds].key)]_vars

\* C2: a set whose refcount is > 1 when zink_descriptor_set_get starts is never
\* returned with cache_hit = false and never re-stamped with another
\* fingerprint, whichever path the call takes.
C2_HeldNeverRewritten ==
    [][GetReturned /\ WasHeld(ret'.zds)
       => /\ ret'.cache_hit
          /\ zds'[ret'.zds].hash = zds[ret'.zds].hash
          /\ zds'[ret'.zds].key = zds[ret'.zds].key]_vars

\* C3: destroying resource R (zink_descriptor_set_refs_clear) leaves every set
\* that had R in a slot invalid with that slot NULL; and a
\* zink_descriptor_set_get that finds an invalid set under the fingerprint asked
\* for, in the last-set shortcut, the active map or the recycle map, returns
\* with cache_hit = false.
C3_InvalidationPropagates ==
    [][Step =>
         /\ ret'.op = "refs_clear" =>
              \A o \in DOMAIN zds : \A idx \in SlotsOf(o) :
                 SlotValue(zds, resources, o, idx) = ret'.zds =>
                    /\ zds'[o].invalid
                    /\ SlotValue(zds', resources', o, idx) = NULL
         /\ ret'.op # "abort"
         /\ (/\ ret'.op = "get"
             /\ ret'.path \in {"last_set", "active", "recycled"}
             /\ zds[ret'.zds].invalid) => ~ret'.cache_hit]_vars

\* C4: the sets-allocated counter of every pool is at most the capacity
\* ZINK_DEFAULT_MAX_DESCS in every reachable state.
C4_CapacityRespected ==
    \A t \in Types : pool[t].num_sets_allocated <= ZINK_DEFAULT_MAX_DESCS

\* a zink_descriptor_set_get found the pool at capacity and flushed instead of allocating
C4_ExhaustedAtCapacity ==
    /\ ret.op = "flush"
    /\ pool[0].num_sets_allocated = ZINK_DEFAULT_MAX_DESCS

\* the fingerprint the step's zink_descriptor_set_get was called with is the one
\* set o carries: the call returned, flushed to retry, or stopped in the assertion
CalledWithFingerprintOf(o) ==
    \/ ret'.op = "get" /\ AskedFingerprintOf(o)
    \/ /\ ret'.op = "flush"
       /\ req'.type = zds[o].pool
       /\ Hash(req'.type, req'.ctx) = zds[o].hash
       /\ desc_state_equal(Key(req'.ctx), zds[o].key)
    \/ /\ ret'.op = "abort"
       /\ zds[ret'.zds].pool = zds[o].pool
       /\ zds[ret'.zds].hash = zds[o].hash
       /\ desc_state_equal(zds[ret'.zds].key, zds[o].key)

C6_Idempotent ==
    [][(/\ GetReturned
        /\ ret.op \in {"get", "bind"}
        /\ AskedFingerprintOf(ret.zds))
       => /\ ret'.zds = ret.zds
          /\ ret'.cache_hit
          /\ zds'[ret.zds].refcount = zds[ret.zds].refcount]_vars

\* the second of two zink_descriptor_set_get calls returned through the last-set shortcut
C6_SecondGet ==
    /\ ops = 2
    /\ ret.op = "get"
    /\ ret.path = "last_set"
    /\ ret.cache_hit
    /\ zds[ret.zds].refcount = 2

\* C7: the scan of the recycle map only selects a set whose refcount is 1, and
\* in every reachable state every set stored in the recycle map has refcount 1.
C7_ScanAndRecycleMapUnreferenced ==
    [][Step =>
         /\ (ret'.op = "get" /\ ret'.path = "scan") => zds[ret'.zds].refcount = 1
         /\ \A t \in Types : \A he \in pool'[t].free_desc_sets :
               zds'[he.zds].refcount = 1]_vars

\* C8: zink_descriptor_set_recycle on a set whose refcount is not 1 leaves the
\* active map, the recycle map, the shell list and the set's invalid and
\* recycled flags unchanged.
C8_RecycleNoOp ==
    [][(Step /\ ret'.op = "recycle" /\ zds'[ret'.zds].refcount # 1)
       => /\ pool' = pool
          /\ zds'[ret'.zds].invalid = zds[ret'.zds].invalid
          /\ zds'[ret'.zds].recycled = zds[ret'.zds].recycled]_vars

\* zink_descriptor_set_recycle ran on a set that another batch still holds
C8_RecycleWhileHeld ==
    /\ ret.op = "recycle"
    /\ zds[ret.zds].refcount > 1
    /\ \E he \in pool[zds[ret.zds].pool].desc_sets : he.zds = ret.zds

\* C9: no fingerprint (hash and key) is a key of both the active map and the
\* recycle map of a pool.
C9_MapsDisjoint ==
    \A t \in Types : \A a \in pool[t].desc_sets, f \in pool[t].free_desc_sets :
        ~(a.hash = f.hash /\ desc_state_equal(zds[a.zds].key, zds[f.zds].key))

\* C10: a hit in the active map is a valid set: the assertion of line 235
\* never fails, and no active-map hit is returned with cache_hit = false.
C10_ActiveHitValid ==
    /\ pc # "abort"
    /\ (ret.op = "get" /\ ret.path = "active") => ret.cache_hit

C14_GetAlwaysReturnsASet ==
    /\ pc # "segv"
    /\ ret.op = "get" => ret.zds \in DOMAIN zds

\* set o is in the active map, the recycle map, the shell list of its pool
InActive(o) == \E he \in pool[zds[o].pool].desc_sets : he.zds = o
InRecycle(o) == \E he \in pool[zds[o].pool].free_desc_sets : he.zds = o
InShells(o) ==
    \E i \in DOMAIN pool[zds[o].pool].alloc_desc_sets :
        pool[zds[o].pool].alloc_desc_sets[i] = o

\* C19: between operations every set of a pool that has descriptors is in
\* exactly one of the active map, the recycle map and the shell list.
C19_ExactlyOneCollection ==
    pc = "idle" =>
        \A o \in DOMAIN zds :
            pool[zds[o].pool].num_descriptors # 0 =>
                /\ InActive(o) \/ InRecycle(o) \/ InShells(o)
                /\ ~(InActive(o) /\ InRecycle(o))
                /\ ~(InActive(o) /\ InShells(o))
                /\ ~(InRecycle(o) /\ InShells(o))

\* the pool of type 0 is full: as many gets as the capacity, each for another
\* fingerprint, nothing released; every set of the pool is held by the batch
AtCapacity ==
    /\ pc = "idle"
    /\ ops = ZINK_DEFAULT_MAX_DESCS
    /\ Len(zds) = ZINK_DEFAULT_MAX_DESCS
    /\ pool[0].num_sets_allocated = ZINK_DEFAULT_MAX_DESCS
    /\ \A o \in DOMAIN zds : o \in batches[curr] /\ zds[o].refcount = 2
    /\ \A o, q \in DOMAIN zds : o # q => zds[o].hash # zds[q].hash

\* the call for one more fingerprint has flushed the batch and is about to retry
FlushedAtCapacity ==
    /\ pc = "retry"
    /\ ret.op = "flush"
    /\ ops = ZINK_DEFAULT_MAX_DESCS + 1
    /\ Len(zds) = ZINK_DEFAULT_MAX_DESCS
    /\ \A o \in DOMAIN zds : zds[o].hash # req.ctx.hash

NullCategory(t) == pool[t].created /\ num_resources[t] = 0

\* C13: the pool of a null-binding category never has an entry in its active
\* map or its recycle map, all null-binding categories of the program have the
\* same last set, and at most one set is created for them.
C13_NullCategoryPlaceholder ==
    /\ \A t \in Types :
          NullCategory(t) => pool[t].desc_sets = {} /\ pool[t].free_desc_sets = {}
    /\ \A t, u \in Types : NullCategory(t) /\ NullCategory(u) => last_set[t] = last_set[u]
    /\ Cardinality({o \in DOMAIN zds : NullCategory(zds[o].pool)}) <= 1

\* C15: descriptor_pool_create returns a pool with empty maps, an empty shell
\* list and no set allocated, or no pool; when it fails nothing of the pool it
\* was building is left; zink_descriptor_program_init then reports the failure,
\* having called descriptor_pool_create once per type at most and for no type
\* after the failure, and the program is not used.
C15_PoolCreation ==
    [][/\ pc # "failed"
       /\ pc = "setup" =>
            /\ \A t \in Types :
                  pool'[t].created =>
                      /\ pool'[t].desc_sets = {}
                      /\ pool'[t].free_desc_sets = {}
                      /\ pool'[t].alloc_desc_sets = <<>>
                      /\ pool'[t].num_sets_allocated = 0
            /\ live' = {<<t, part>> : t \in {u \in Types : pool'[u].created},
                                      part \in PoolParts}
            /\ \A i, j \in DOMAIN ret'.calls : i # j => ret'.calls[i] # ret'.calls[j]
            /\ ret'.ok = (pc' = "idle")
            /\ ret'.ok = (\A i \in DOMAIN ret'.calls : pool'[ret'.calls[i]].created)
            /\ ~ret'.ok =>
                  /\ ~pool'[ret'.calls[Len(ret'.calls)]].created
                  /\ \A i \in 1 .. (Len(ret'.calls) - 1) : pool'[ret'.calls[i]].created]_vars

\* the VkDescriptorPool of the second pool could not be created
C15_FailedSecondPool ==
    /\ pc = "failed"
    /\ ret.op = "program_init"
    /\ ret.path = "descpool"
    /\ ret.calls = <<1, 0>>
    /\ pool[1].created

\* C16: with zink_descriptor_set_recycle running on the thread that retires
\* batches, interleaved with zink_descriptor_set_get, no set with a reference
\* count above 1 is in the recycle map or the shell list, and the set a get has
\* just returned is in the active map.
C16_RecycleInterleaved ==
    /\ \A o \in DOMAIN zds : zds[o].refcount > 1 => ~InRecycle(o) /\ ~InShells(o)
    /\ ret.op = "get" => InActive(ret.zds)

\* C17: sets come into being only in a bucket that allocate_desc_set creates,
\* none goes away while its pool exists, and no operation changes the
\* VkDescriptorSet handle or the pool of a set, however often the set is
\* stamped with another fingerprint.
C17_HandleAndPoolStable ==
    [][/\ \A o \in DOMAIN zds :
            /\ o \in DOMAIN zds'
            /\ zds'[o].desc_set = zds[o].desc_set
            /\ zds'[o].pool = zds[o].pool
       /\ \A o, q \in DOMAIN zds' : o # q => zds'[o].desc_set # zds'[q].desc_set
       /\ Len(zds') # Len(zds) =>
            /\ ret'.op = "get" /\ ret'.path = "alloc"
            /\ Len(zds') = Len(zds)
                  + BucketSize(pool[zds'[ret'.zds].pool].num_descriptors, 1)
            /\ \A o \in DOMAIN zds' \ DOMAIN zds : zds'[o].pool = zds'[ret'.zds].pool]_vars

\* a set that carried one fingerprint is handed out again under another, in a
\* program with sets of two pools
C17_SetRestamped ==
    /\ ret.op = "get"
    /\ ret.path = "scan"
    /\ zds[ret.zds].desc_set = ret.zds
    /\ \E o \in DOMAIN zds : zds[o].pool # zds[ret.zds].pool

\* C18: the hash of a fingerprint depends only on the revisions of the stages
\* it marks present, and is the bare revision when stage 0 is the only one:
\* two fingerprints that desc_state_equal takes for equal have the same
\* desc_state_hash.
C18_EqualKeysHashEqual ==
    pc = "compared" =>
        /\ ret.eq => ret.ha = ret.hb
        /\ (\A i \in Stages : req.a.exists[i] = (i = 0)) => ret.ha = req.a.state[0]

\* what a call for fingerprint (h, k) on type t finds before the step
ShortcutMatches(t, h, k) ==
    /\ last_set[t] # NULL
    /\ zds[last_set[t]].hash = h
    /\ desc_state_equal(zds[last_set[t]].key, k)
ActiveMapHas(t, h, k) == Search(pool[t].desc_sets, zds, h, k) # {}
RecycleMapHas(t, h, k) == Search(pool[t].free_desc_sets, zds, h, k) # {}
ShellListEmpty(t) == Len(pool[t].alloc_desc_sets) = 0
ScanCanSelect(t, o) ==
    \E order \in Orders(pool[t].free_desc_sets) : scan(order, zds, 0).zds = o
AllMiss(t, h, k) ==
    /\ ~ShortcutMatches(t, h, k)
    /\ ~ActiveMapHas(t, h, k)
    /\ ~RecycleMapHas(t, h, k)

\* the source a returning call may have taken its set o from, by the path it
\* reports, and what a flushing call must have found
TookInOrder(path, t, h, k, o) ==
    /\ path = "last_set" => ShortcutMatches(t, h, k) /\ o = last_set[t]
    /\ path = "active" =>
          /\ ~ShortcutMatches(t, h, k)
          /\ \E he \in Search(pool[t].desc_sets, zds, h, k) : he.zds = o
    /\ path = "recycled" =>
          /\ ~ShortcutMatches(t, h, k)
          /\ ~ActiveMapHas(t, h, k)
          /\ \E he \in Search(pool[t].free_desc_sets, zds, h, k) : he.zds = o
    /\ path = "shell" =>
          /\ AllMiss(t, h, k)
          /\ ~ShellListEmpty(t)
          /\ o = pool[t].alloc_desc_sets[Len(pool[t].alloc_desc_sets)]
    /\ path = "scan" =>
          /\ AllMiss(t, h, k)
          /\ ShellListEmpty(t)
          /\ ScanCanSelect(t, o)
    /\ path = "flush" =>
          /\ AllMiss(t, h, k)
          /\ ShellListEmpty(t)
          /\ ScanCanSelect(t, NULL)
          /\ Exhausted(pool[t])
    /\ path = "alloc" =>
          /\ AllMiss(t, h, k)
          /\ ShellListEmpty(t)
          /\ ScanCanSelect(t, NULL)
          /\ ~Exhausted(pool[t])
          /\ o \notin DOMAIN zds

\* C20: zink_descriptor_set_get takes its set from the first source that has
\* one, in the order last set, active map, recycle map, shell list, scan of the
\* recycle map, flush and retry, new bucket: a bucket is allocated only when
\* the last set does not match, both maps miss, the shell list is empty, the
\* scan selects nothing and the capacity test passes.
C20_SourcesInOrder ==
    [][/\ GetReturned =>
            /\ ret'.path \in {"last_set", "active", "recycled", "shell", "scan", "alloc"}
            /\ TookInOrder(ret'.path, zds'[ret'.zds].pool, zds'[ret'.zds].hash,
                           zds'[ret'.zds].key, ret'.zds)
       /\ (Step /\ ret'.op = "flush") =>
            TookInOrder("flush", req'.type, req'.ctx.hash,
                        populate_zds_key(req'.ctx, is_compute, NoKey), NULL)]_vars

\* a set comes from the scan while the active map holds another
C20_ScanWithOthersCached ==
    /\ ret.op = "get"
    /\ ret.path = "scan"
    /\ \E he \in pool[zds[ret.zds].pool].desc_sets : he.zds # ret.zds

\* entry i of a walk over the recycle map qualifies: its set is invalidated
\* with reference count 1, or ScanLimit entries came before it and its set has
\* reference count 1
Qualifies(order, i) ==
    LET z == zds[order[i].zds]
    IN  \/ z.invalid /\ z.refcount = 1
        \/ (i - 1) >= ScanLimit /\ z.refcount = 1

\* C21: the scan of the recycle map selects the first entry whose set is
\* invalidated with reference count 1 or, after 100 entries (ScanLimit here),
\* the first whose set has reference count 1; the entry leaves the recycle map
\* and the set is stamped anew; when no entry qualifies the scan leaves the
\* recycle map as it is.
C21_ScanSelection ==
    [][/\ (GetReturned /\ ret'.path = "scan") =>
            LET o == ret'.zds
                t == zds[o].pool
            IN  /\ \E order \in Orders(pool[t].free_desc_sets) :
                     \E i \in DOMAIN order :
                        /\ order[i].zds = o
                        /\ Qualifies(order, i)
                        /\ \A j \in 1 .. (i - 1) : ~Qualifies(order, j)
                        /\ pool'[t].free_desc_sets = pool[t].free_desc_sets \ {order[i]}
                /\ \A he \in pool'[t].free_desc_sets : he.zds # o
                /\ \E he \in pool'[t].desc_sets :
                        he.zds = o /\ he.hash = zds'[o].hash
       /\ (GetReturned /\ ret'.path = "alloc") =>
            LET t == zds'[ret'.zds].pool
            IN  /\ pool'[t].free_desc_sets = pool[t].free_desc_sets
                /\ \E order \in Orders(pool[t].free_desc_sets) :
                        \A i \in DOMAIN order : ~Qualifies(order, i)
       /\ (Step /\ ret'.op = "flush") =>
            /\ pool[req'.type].free_desc_sets \subseteq pool'[req'.type].free_desc_sets
            /\ \E order \in Orders(pool[req'.type].free_desc_sets) :
                    \A i \in DOMAIN order : ~Qualifies(order, i)]_vars

\* the scan passed over an entry and took a later one
C21_ScanSkippedAnEntry ==
    /\ ret.op = "get"
    /\ ret.path = "scan"
    /\ pool[zds[ret.zds].pool].free_desc_sets # {}

\* this step is a zink_descriptor_set_get for type t with the context in state
\* c that returns a set
GetReturns(t, c) ==
    /\ ret'.op = "get"
    /\ \/ GetLastSet(t, c)
       \/ GetActiveHit(t, c)
       \/ GetRecycleHit(t, c)
       \/ GetShell(t, c)
       \/ GetScan(t, c)
       \/ GetAlloc(t, c)

\* C22: whatever branch of zink_descriptor_set_get produced it, the set
\* returned for a pool with descriptors carries the requested hash and key, is
\* valid, is not flagged recycled, is what the active map holds for that
\* fingerprint, is the last set of the type and is held by the recording batch.
C22_ReturnedSetState ==
    [][\A t \in Types, c \in CtxStates(is_compute) :
          (GetReturns(t, c) /\ pool[t].num_descriptors # 0) =>
              LET o == ret'.zds
              IN  /\ zds'[o].hash = Hash(t, c)
                  /\ desc_state_equal(zds'[o].key, Key(c))
                  /\ ~zds'[o].invalid
                  /\ ~zds'[o].recycled
                  /\ \E he \in Search(pool'[t].desc_sets, zds', Hash(t, c), Key(c)) :
                        he.zds = o
                  /\ \A he \in Search(pool'[t].desc_sets, zds', Hash(t, c), Key(c)) :
                        he.zds = o
                  /\ last_set'[t] = o
                  /\ o \in batches'[curr']]_vars

\* a set taken back from the recycle map has been returned: it is valid, not
\* flagged recycled, in the active map and held by the recording batch
C22_ReturnedFromRecycleMap ==
    /\ ret.op = "get"
    /\ ret.path = "recycled"
    /\ pool[zds[ret.zds].pool].num_descriptors # 0
    /\ InActive(ret.zds)
    /\ ret.zds \in batches[curr]

\* C23: *cache_hit is the validity the returned set had before the call when
\* the set comes from the last set of the type, from the active map or from
\* the recycle map, and false when it comes from the shell list, from the scan
\* or from a new bucket.
C23_CacheHitIsOldValidity ==
    [][\A t \in Types, c \in CtxStates(is_compute) :
          GetReturns(t, c) =>
              IF \/ LastSetMatch(t, c)
                 \/ pool[t].num_descriptors # 0 /\ ActiveHits(t, c) # {}
                 \/ pool[t].num_descriptors # 0 /\ RecycleHits(t, c) # {}
              THEN /\ ret'.path \in {"last_set", "active", "recycled"}
                   /\ ret'.cache_hit = ~zds[ret'.zds].invalid
              ELSE /\ ret'.path \in {"shell", "scan", "alloc"}
                   /\ ret'.cache_hit = FALSE]_vars

\* a set that was invalidated while it sat in the recycle map has been taken
\* back: the call found it and reported no cache hit
C23_InvalidSetFromRecycleMap ==
    /\ ret.op = "get"
    /\ ret.path = "recycled"
    /\ ~ret.cache_hit
    /\ ~zds[ret.zds].invalid

\* this step is zink_descriptor_set_recycle(o) called with the last reference
\* on o
Recycles(o) ==
    /\ Step
    /\ ret'.op = "recycle"
    /\ ret'.zds = o
    /\ zds[o].refcount = 2
    /\ zds'[o].refcount = 1

\* C24: zink_descriptor_set_recycle on a set with reference count 1 that is in
\* the active map takes it out of the active map; an invalid set is then
\* appended to alloc_desc_sets and does not enter the recycle map, a valid set
\* is flagged recycled and enters the recycle map under its unchanged hash and key.
C24_RecycleMovesSet ==
    [][\A o \in DOMAIN zds :
          (Recycles(o) /\ InActive(o)) =>
              LET t == zds[o].pool
              IN  /\ \A he \in pool'[t].desc_sets : he.zds # o
                  /\ IF zds[o].invalid
                     THEN /\ pool'[t].alloc_desc_sets = Append(pool[t].alloc_desc_sets, o)
                          /\ pool'[t].free_desc_sets = pool[t].free_desc_sets
                     ELSE /\ zds'[o].recycled
                          /\ zds'[o].hash = zds[o].hash
                          /\ zds'[o].key = zds[o].key
                          /\ \E he \in pool'[t].free_desc_sets :
                                he.zds = o /\ he.hash = zds[o].hash
                          /\ pool'[t].alloc_desc_sets = pool[t].alloc_desc_sets]_vars

\* this step runs the body of zink_descriptor_set_recycle(o), lines 316-333:
\* in one piece with the test of line 313, or as the second step of a call that
\* read a reference count of 1 earlier
RecycleBody(o) ==
    \/ Recycles(o)
    \/ Step /\ ret'.op = "recycle" /\ o # NULL /\ rec = o

C27_BucketAllocation ==
    [][/\ (GetReturned /\ ret'.path = "alloc") =>
            LET t == zds'[ret'.zds].pool
                B == BucketSize(pool[t].num_descriptors, 1)
                a == allocate_desc_set(pool, zds, resources, t, num_resources[t], 1)
                first == Len(zds) + 1
            IN  /\ Len(a.zds) = Len(zds) + B
                /\ Len(zds') = Len(zds) + B
                /\ \A i \in first .. Len(zds) + B :
                      /\ a.zds[i].refcount = 1
                      /\ a.zds[i].invalid
                      /\ ~a.zds[i].recycled
                      /\ a.zds[i].hash = 0
                      /\ a.zds[i].pool = t
                /\ \A i \in first + 1 .. Len(zds) + B : zds'[i] = a.zds[i]
                /\ \A o \in DOMAIN zds : zds'[o] = zds[o] /\ a.zds[o] = zds[o]
                /\ a.alloc = first
                /\ ret'.zds = first
                /\ pool'[t].alloc_desc_sets =
                      pool[t].alloc_desc_sets \o [i \in 1 .. B - 1 |-> first + i]
                /\ a.pool[t].alloc_desc_sets = pool'[t].alloc_desc_sets
                /\ pool'[t].num_sets_allocated = pool[t].num_sets_allocated + B
                /\ a.pool[t].num_sets_allocated = pool[t].num_sets_allocated + B
       /\ (Step /\ ret'.op = "segv") =>
            /\ zds' = zds
            /\ pool' = pool
            /\ resources' = resources]_vars

\* a bucket has been allocated: its first set was returned and the others wait
\* in alloc_desc_sets
C27_BucketAllocated ==
    /\ ret.op = "get"
    /\ ret.path = "alloc"
    /\ Len(zds) = DESC_BUCKET_FACTOR
    /\ Len(pool[zds[ret.zds].pool].alloc_desc_sets) = DESC_BUCKET_FACTOR - 1
    /\ pool[zds[ret.zds].pool].num_sets_allocated = DESC_BUCKET_FACTOR

RECURSIVE PowerAtLeast(_, _)
\* the smallest of p, p * DESC_BUCKET_FACTOR, ... that is at least n
PowerAtLeast(p, n) == IF p >= n THEN p ELSE PowerAtLeast(p * DESC_BUCKET_FACTOR, n)

Listed(r, o, idx) ==
    \E ref \in refs[r] :
        /\ ref.zds = o
        /\ ref.alloc = Slot(zds, o, idx).alloc
        /\ ref.cell = Slot(zds, o, idx).cell

\* C29: zink_descriptor_set_refs_clear(R) invalidates the set and empties the
\* slot for exactly the slots in R's list that still hold R; a set whose slot
\* was bound to something else since keeps its invalid flag and its slot; R's
\* list is empty afterwards and no map and no alloc_desc_sets has changed.
C29_RefsClearFrame ==
    [][(Step /\ ret'.op = "refs_clear") =>
          LET r == ret'.zds
              Hit(o, idx) == Listed(r, o, idx) /\ SlotValue(zds, resources, o, idx) = r
          IN  /\ DOMAIN zds' = DOMAIN zds
              /\ \A o \in DOMAIN zds :
                    /\ \A idx \in SlotsOf(o) :
                          SlotValue(zds', resources', o, idx) =
                              IF Hit(o, idx) THEN NULL
                              ELSE SlotValue(zds, resources, o, idx)
                    /\ zds'[o] = [zds[o] EXCEPT !.invalid =
                                     zds[o].invalid \/ \E idx \in SlotsOf(o) : Hit(o, idx)]
              /\ refs'[r] = {}
              /\ \A q \in DOMAIN refs \ {r} : refs'[q] = refs[q]
              /\ pool' = pool
              /\ last_set' = last_set
              /\ batches' = batches]_vars

\* a resource is about to be destroyed whose list names a slot that still holds
\* it and a slot of a valid set that was bound to another resource since
C29_StaleAndLiveReference ==
    /\ pc = "idle"
    /\ ops < limit
    /\ \E r \in DOMAIN refs : \E live_ref \in refs[r], stale_ref \in refs[r] :
          /\ resources[live_ref.alloc][live_ref.cell] = r
          /\ ~zds[live_ref.zds].invalid
          /\ resources[stale_ref.alloc][stale_ref.cell] \notin {r, NULL}
          /\ ~zds[stale_ref.zds].invalid
          /\ stale_ref.zds # live_ref.zds

\* C30: zink_descriptor_set_invalidate sets the invalid flag of the set and
\* changes nothing else: no other field of the set, no other set, no map, no
\* list, no slot, no list of references and no batch.
C30_InvalidateFrame ==
    [][(Step /\ ret'.op = "invalidate") =>
          /\ \E o \in DOMAIN zds :
                /\ ~zds[o].invalid
                /\ zds' = [zds EXCEPT ![o].invalid = TRUE]
          /\ pool' = pool
          /\ resources' = resources
          /\ refs' = refs
          /\ last_set' = last_set
          /\ batches' = batches
          /\ curr' = curr]_vars

\* a set that a batch holds and the active map knows has been invalidated
C30_HeldSetInvalidated ==
    /\ ret.op = "invalidate"
    /\ \E o \in DOMAIN zds :
          /\ zds[o].invalid
          /\ zds[o].refcount > 1
          /\ zds[o].hash # 0
          /\ InActive(o)
          /\ last_set[zds[o].pool] = o

\* C31: in a pool with descriptors a set is flagged recycled exactly when it is
\* an entry of the recycle map.
C31_RecycledIffInRecycleMap ==
    \A o \in DOMAIN zds :
        pool[zds[o].pool].num_descriptors # 0 =>
            (zds[o].recycled <=> InRecycle(o))

\* set o is an entry of a map of the pool of type t
InMapsOf(t, o) ==
    \E he \in pool[t].desc_sets \cup pool[t].free_desc_sets : he.zds = o

\* this step is zink_descriptor_pool_free on the pool of type t
PoolFreed(t) == Step /\ ret'.op = "pool_free" /\ ret'.type = t

\* C32 as claimed: zink_descriptor_pool_free leaves every set that was in the
\* active map or in the recycle map invalid, in every build.
C32_FreeInvalidatesEntries ==
    [][\A t \in Types : (PoolFreed(t) /\ pool[t].created) =>
            \A o \in DOMAIN zds : InMapsOf(t, o) => zds'[o].invalid]_vars

\* C32 amended: compiled without NDEBUG, zink_descriptor_pool_free marks every
\* set that is in the active map or in the recycle map invalid and no other set,
\* before it discards the maps; compiled with NDEBUG it marks none. In both
\* builds the pool and all its parts are gone afterwards and the other pools are
\* as they were, a null pool is accepted and changes nothing, and of a pool
\* that descriptor_pool_create gave up half-built no part is left.
C32_FreeInvalidatesInDebugBuild ==
    [][/\ \A t \in Types : PoolFreed(t) =>
            IF pool[t].created
            THEN /\ DOMAIN zds' = DOMAIN zds
                 /\ \A o \in DOMAIN zds :
                       zds'[o] = IF ret'.path = "assertions" /\ InMapsOf(t, o)
                                 THEN [zds[o] EXCEPT !.invalid = TRUE]
                                 ELSE zds[o]
                 /\ pool'[t] = NoPool
                 /\ \A q \in Types \ {t} : pool'[q] = pool[q]
                 /\ live' = {x \in live : x[1] # t}
            ELSE zds' = zds /\ pool' = pool /\ live' = live
       /\ (Step /\ ret'.op = "program_init" /\ ~ret'.ok) =>
            LET i == ret'.calls[Len(ret'.calls)]
            IN  /\ ~pool'[i].created
                /\ \A x \in live' : x[1] # i]_vars

\* a pool has been freed in the build without NDEBUG while its active map held
\* a valid set and its recycle map another: both sets are invalid now
C32_FreedWithEntriesInBothMaps ==
    /\ pc = "freed"
    /\ ret.op = "pool_free"
    /\ ret.path = "assertions"
    /\ ~pool[ret.type].created
    /\ \E a \in DOMAIN zds, b \in DOMAIN zds :
          /\ a # b
          /\ zds[a].pool = ret.type /\ zds[b].pool = ret.type
          /\ zds[a].invalid /\ zds[b].invalid
          /\ zds[a].refcount > 1
          /\ zds[b].recycled

\* type i needs a pool in a program with nb[t] bindings of type t: it has
\* bindings, or a type above it has
NeedsPool(nb, i) == nb[i] # 0 \/ \E j \in Types : j > i /\ nb[j] # 0

\* C33: zink_descriptor_program_init creates no pool for a program without
\* bindings; otherwise it creates the pool of type i exactly when type i or a
\* type above it has bindings, with one null binding when type i has none, and
\* it returns true only when every one of these pools was created.
C33_PoolsOfTheProgram ==
    [][(pc = "setup" /\ ret'.op = "program_init") =>
          LET nb == num_resources'
              called == {ret'.calls[k] : k \in DOMAIN ret'.calls}
          IN  /\ (\A t \in Types : nb[t] = 0) =>
                    /\ ret'.ok
                    /\ called = {}
                    /\ \A t \in Types : ~pool'[t].created
              /\ called \subseteq {i \in Types : NeedsPool(nb, i)}
              /\ \A i \in Types : pool'[i].created => NeedsPool(nb, i)
              /\ \A i \in Types : pool'[i].created =>
                    pool'[i].num_descriptors = IF nb[i] = 0 THEN 1 ELSE nb[i]
              /\ ret'.ok = (\A i \in Types : NeedsPool(nb, i) => pool'[i].created)
              /\ ret'.ok = (pc' = "idle")]_vars

\* the program has bindings of the type above only: the type below has a pool
\* of one null binding, and zink_descriptor_program_init returned true
C33_PlaceholderBelow ==
    /\ ret.op = "program_init"
    /\ ret.ok
    /\ num_resources[0] = 0
    /\ num_resources[ZINK_DESCRIPTOR_TYPES - 1] # 0
    /\ pool[0].created
    /\ pool[0].num_descriptors = 1
    /\ pool[ZINK_DESCRIPTOR_TYPES - 1].created

====
